---- MODULE Spec2Model ----
(***************************************************************************)
(* IdenaAuthGo: the rolling indexer (src/rolling_indexer/main.go), its     *)
(* SQLite identity store (src/schema.sql), the eligibility rule and the    *)
(* whitelist commitment.                                                   *)
(*                                                                         *)
(* An address is a byte string, modelled as the sequence of its byte       *)
(* values; a stake is a whole number of iDNA (9999 stands for the largest  *)
(* stake below the threshold); a timestamp is a reading of the wall clock  *)
(* `now`.  A hash is modelled symbolically, as a record that names what    *)
(* was hashed: a collision-free function.                                  *)
(***************************************************************************)
EXTENDS Integers, Sequences, FiniteSets, TLC

\* ------------------------------------------------------------------ bounds
\* Longest result list one dna_identities response carries.
MaxBatch == 2
\* Last reading of the wall clock.
MaxClock == 1
\* Most addresses the table holds when a commitment is built.
MaxLeaves == 4
\* longest address list given to the fetcher agent
MaxAddresses == 3

\* --------------------------------------------------------------- constants
MinStake == 10000
DefaultBatchSize == 100

\* -------------------------------------------------------------- universes
\* The addresses "A" and "a" (they differ only in letter case).
Addresses == { <<65>>, <<97>> }
\* An address that is never ingested: "z".
UnknownAddress == <<122>>
\* What the remote authority reports for an address: state and stake.
RemoteProfiles == {<<"Human", 10000>>, <<"Newbie", 9999>>}

IdenaIdentity ==
    {[Address |-> a, State |-> p[1], Stake |-> p[2]] : a \in Addresses, p \in RemoteProfiles}

RECURSIVE SeqsUpTo(_, _)
SeqsUpTo(S, n) ==
    IF n = 0 THEN {<<>>}
    ELSE LET shorter == SeqsUpTo(S, n - 1)
         IN  shorter \cup {Append(q, x) : q \in {r \in shorter : Len(r) = n - 1}, x \in S}

\* The result lists a dna_identities response can carry.
RPCResults == SeqsUpTo(IdenaIdentity, MaxBatch)

\* ------------------------------------------------------------------ state
VARIABLES
    store,          \* table identities as committed: address -> row, or NoRow
    now,            \* the wall clock read by time.Now()
    pc,             \* where the scheduler goroutine stands
    batch,          \* identities handed to updateDatabase
    idx,            \* position of updateDatabase's loop in batch
    pending,        \* rows written inside the open transaction, not yet committed
    updated,        \* updateDatabase's counter of rows whose Exec succeeded
    resp,           \* what the HTTP handler that just returned has answered
    pre,            \* history: the committed table when updateDatabase began
    tickerC,        \* ticks waiting in the channel ticker.C
    call,           \* the commitment call in progress: the eligible list it has read
    logged,         \* the time the logger stamped on the last line of each kind
    fetcher         \* the fetcher agent: its config, its input and FetchIdentities' locals

vars == <<store, now, pc, batch, idx, pending, updated, resp, pre, tickerC, call, logged, fetcher>>

NoRow == [absent |-> TRUE]
NoResp == [kind |-> "none"]
NoCall == [taken |-> FALSE]
NoFetcher == [pc |-> "none"]

EmptyTable == [a \in Addresses |-> NoRow]

Present(table) == {a \in DOMAIN table : table[a] # NoRow}

\* ----------------------------------------------------- byte-string order
\* memcmp order of two byte strings (SQLite's BINARY collation): the first
\* differing byte decides, and a proper prefix sorts first.
RECURSIVE LexLess(_, _)
LexLess(a, b) ==
    IF b = <<>> THEN FALSE
    ELSE IF a = <<>> THEN TRUE
    ELSE IF Head(a) # Head(b) THEN Head(a) < Head(b)
    ELSE LexLess(Tail(a), Tail(b))

\* ORDER BY address: the addresses of S, least first.
RECURSIVE OrderByAddress(_)
OrderByAddress(S) ==
    IF S = {} THEN <<>>
    ELSE LET least == CHOOSE a \in S : \A b \in S \ {a} : LexLess(a, b)
         IN  <<least>> \o OrderByAddress(S \ {least})

\* ------------------------------------------------------------ the table
\* (mutant) the stake is not compared
EligibleRowAnyStake(r) == r.state \in {"Human", "Verified", "Newbie"}

\* (mutant) a stake at the threshold is refused
EligibleRowAbove(r) ==
    /\ r.state \in {"Human", "Verified", "Newbie"}
    /\ r.stake > MinStake

\* (mutant) the states that are refused are listed, not those that pass
EligibleRowDenyList(r) ==
    /\ r.state \notin {"Undefined", "Candidate", "Suspended", "Zombie"}
    /\ r.stake >= MinStake

\* WHERE state IN ('Human', 'Verified', 'Newbie') AND stake >= 10000
EligibleRow(r) ==
    /\ r.state \in {"Human", "Verified", "Newbie"}
    /\ r.stake >= MinStake

\* (mutant) the stake is added to the one already stored
UpsertRowAdding(old, identity, t) ==
    [state |-> identity.State,
     stake |-> IF old = NoRow THEN identity.Stake ELSE old.stake + identity.Stake,
     timestamp |-> t, updated_at |-> t]

\* (mutant) the row is updated in place: the column the statement does not
\* name keeps the value of the old row
UpsertRowInPlace(old, identity, t) ==
    [state |-> identity.State, stake |-> identity.Stake,
     timestamp |-> IF old = NoRow THEN t ELSE old.timestamp, updated_at |-> t]

\* INSERT OR REPLACE INTO identities (address, state, stake, updated_at):
\* the row the statement leaves under the identity's address.  REPLACE
\* deletes the row that holds the key and inserts a new one: the column the
\* statement does not name, timestamp, takes its default CURRENT_TIMESTAMP.
UpsertRow(old, identity, t) ==
    [state |-> identity.State, stake |-> identity.Stake, timestamp |-> t, updated_at |-> t]

\* What a connection of the pool other than the transaction's reads: the
\* committed table only.
ReadView == store

\* (mutant) the table becomes the rows of the transaction: what the node no
\* longer reports is dropped
CommitRowsReplacingTable(table, written) == written

\* What tx.Commit() makes of the committed table.
CommitRows(table, written) ==
    [a \in DOMAIN table |-> IF written[a] # NoRow THEN written[a] ELSE table[a]]

\* ------------------------------------------------------- the scheduler
\* time passes
Tick ==
    /\ now < MaxClock
    /\ now' = now + 1
    /\ resp' = NoResp
    /\ UNCHANGED <<store, pc, batch, idx, pending, updated, pre, tickerC, call, logged, fetcher>>

\* The ticker's period has passed: the tick is sent to ticker.C without
\* blocking.  The channel holds one tick; a tick that finds it full is
\* dropped.
tickerFire ==
    /\ pc # "start"
    /\ tickerC' = 1
    /\ resp' = NoResp
    /\ UNCHANGED <<store, now, pc, batch, idx, pending, updated, pre, call, logged, fetcher>>

\* (mutant) Run without its first call: every fetch waits for a tick
fetchIdentitiesAfterTick ==
    /\ pc \in {"start", "idle"}
    /\ tickerC = 1
    /\ pc' = "fetching"
    /\ tickerC' = 0
    /\ logged' = [logged EXCEPT !.fetching = now]
    /\ resp' = NoResp
    /\ UNCHANGED <<store, now, batch, idx, pending, updated, pre, call, fetcher>>

\* Run calls fetchIdentities: once right after it has made the ticker, then
\* for every tick it receives from ticker.C.  fetchIdentities logs that it
\* begins and sends the dna_identities request.
fetchIdentities ==
    /\ \/ pc = "start"
       \/ pc = "idle" /\ tickerC = 1
    /\ pc' = "fetching"
    /\ tickerC' = 0
    /\ logged' = [logged EXCEPT !.fetching = now]
    /\ resp' = NoResp
    /\ UNCHANGED <<store, now, batch, idx, pending, updated, pre, call, fetcher>>

\* (mutant) the records of the answer are written before its error field
\* is looked at
rpcResponseIngestsFirst ==
    /\ pc = "fetching"
    /\ \/ /\ \E failure \in {"request", "read", "parse"} : pc' = "idle"
          /\ UNCHANGED <<batch, store>>
       \/ /\ \E result \in RPCResults :
                store' = [a \in Addresses |->
                             IF a \in {result[i].Address : i \in 1..Len(result)}
                             THEN UpsertRow(store[a],
                                            result[CHOOSE i \in 1..Len(result) :
                                                       result[i].Address = a], now)
                             ELSE store[a]]
          /\ pc' = "idle"
          /\ UNCHANGED batch
       \/ /\ \E result \in RPCResults : batch' = result
          /\ pc' = "update"
          /\ UNCHANGED store
    /\ resp' = NoResp
    /\ UNCHANGED <<now, idx, pending, updated, pre, tickerC, call, logged, fetcher>>

\* fetchIdentities, lines 171-203: the call fails (transport, body, parsing,
\* or an error reported by the node) and fetchIdentities returns, or it
\* succeeds and the result goes to updateDatabase.
rpcResponse ==
    /\ pc = "fetching"
    /\ \/ /\ \E failure \in {"request", "read", "parse", "rpc"} : pc' = "idle"
          /\ UNCHANGED batch
       \/ /\ \E result \in RPCResults : batch' = result
          /\ pc' = "update"
    /\ resp' = NoResp
    /\ UNCHANGED <<store, now, idx, pending, updated, pre, tickerC, call, logged, fetcher>>

\* (mutant) a client without Timeout: a request the node never answers is
\* never given up
clientNoTimeout ==
    /\ pc = "fetching"
    /\ pc' = "idle"
    /\ FALSE
    /\ UNCHANGED <<store, now, batch, idx, pending, updated, resp, pre, tickerC, call,
                   logged, fetcher>>

\* fetchIdentities, lines 174-181: the client's Timeout of 30 seconds has
\* passed without an answer; client.Do returns the error and fetchIdentities
\* returns.
clientTimeout ==
    /\ pc = "fetching"
    /\ pc' = "idle"
    /\ resp' = NoResp
    /\ UNCHANGED <<store, now, batch, idx, pending, updated, pre, tickerC, call, logged, fetcher>>

\* (mutant) a failure of Begin or Prepare ends the process as a failure of
\* sql.Open does (log.Fatal)
updateBeginFatal ==
    /\ pc = "update"
    /\ \/ /\ \E failure \in {"begin", "prepare"} : pc' = "exited"
          /\ batch' = <<>>
          /\ UNCHANGED <<idx, pending, updated, pre>>
       \/ /\ pc' = "exec"
          /\ idx' = 1
          /\ pending' = EmptyTable
          /\ updated' = 0
          /\ pre' = store
          /\ UNCHANGED batch
    /\ resp' = NoResp
    /\ UNCHANGED <<store, now, tickerC, call, logged, fetcher>>

\* (mutant) when Begin or Prepare fails the identities are fetched again
updateBeginRefetch ==
    /\ pc = "update"
    /\ \/ /\ \E failure \in {"begin", "prepare"} : pc' = "fetching"
          /\ batch' = <<>>
          /\ UNCHANGED <<idx, pending, updated, pre>>
       \/ /\ pc' = "exec"
          /\ idx' = 1
          /\ pending' = EmptyTable
          /\ updated' = 0
          /\ pre' = store
          /\ UNCHANGED batch
    /\ resp' = NoResp
    /\ UNCHANGED <<store, now, tickerC, call, logged, fetcher>>

\* updateDatabase, lines 207-224: Begin and Prepare.
updateBegin ==
    /\ pc = "update"
    /\ \/ /\ \E failure \in {"begin", "prepare"} : pc' = "idle"
          /\ batch' = <<>>
          /\ UNCHANGED <<idx, pending, updated, pre>>
       \/ /\ pc' = "exec"
          /\ idx' = 1
          /\ pending' = EmptyTable
          /\ updated' = 0
          /\ pre' = store
          /\ UNCHANGED batch
    /\ resp' = NoResp
    /\ UNCHANGED <<store, now, tickerC, call, logged, fetcher>>

\* updateDatabase, lines 225-237: one turn of the loop.  A failed Exec is
\* logged and the loop goes on.
updateExec ==
    /\ pc = "exec"
    /\ idx <= Len(batch)
    /\ LET identity == batch[idx]
           old == IF pending[identity.Address] # NoRow
                  THEN pending[identity.Address] ELSE store[identity.Address]
       IN  \/ /\ pending' = [pending EXCEPT
                                ![identity.Address] = UpsertRow(old, identity, now)]
              /\ updated' = updated + 1
           \/ UNCHANGED <<pending, updated>>
    /\ idx' = idx + 1
    /\ resp' = NoResp
    /\ UNCHANGED <<store, now, pc, batch, pre, tickerC, call, logged, fetcher>>

\* (mutant) no transaction: the rows written stay when the cycle fails at
\* its end
updateCommitNoRollback ==
    /\ pc = "exec"
    /\ idx > Len(batch)
    /\ \/ /\ store' = CommitRows(store, pending)
          /\ pc' = "committed"
          /\ UNCHANGED <<batch, idx, updated>>
       \/ /\ pc' = "idle"
          /\ batch' = <<>>
          /\ idx' = 1
          /\ updated' = 0
          /\ store' = CommitRows(store, pending)
    /\ pending' = EmptyTable
    /\ resp' = NoResp
    /\ UNCHANGED <<now, pre, tickerC, call, logged, fetcher>>

\* updateDatabase, lines 239-242: Commit, or its failure and the deferred
\* Rollback.
updateCommit ==
    /\ pc = "exec"
    /\ idx > Len(batch)
    /\ \/ /\ store' = CommitRows(store, pending)
          /\ pc' = "committed"
          /\ UNCHANGED <<batch, idx, updated>>
       \/ /\ pc' = "idle"
          /\ batch' = <<>>
          /\ idx' = 1
          /\ updated' = 0
          /\ UNCHANGED store
    /\ pending' = EmptyTable
    /\ resp' = NoResp
    /\ UNCHANGED <<now, pre, tickerC, call, logged, fetcher>>

\* updateDatabase, line 244: the closing log line, and the return.
updateReturn ==
    /\ pc = "committed"
    /\ pc' = "idle"
    /\ pre' = store
    /\ batch' = <<>>
    /\ idx' = 1
    /\ updated' = 0
    /\ logged' = [logged EXCEPT !.updated = now]
    /\ resp' = NoResp
    /\ UNCHANGED <<store, now, pending, tickerC, call, fetcher>>

\* The process is killed inside updateDatabase: the open transaction is
\* never committed, and a restarted process runs Run from its beginning.
Crash ==
    /\ pc \in {"update", "exec", "committed"}
    /\ pc' = "start"
    /\ tickerC' = 0
    /\ pending' = EmptyTable
    /\ pre' = store
    /\ batch' = <<>>
    /\ idx' = 1
    /\ updated' = 0
    /\ resp' = NoResp
    /\ UNCHANGED <<store, now, call, logged, fetcher>>

\* -------------------------------------------------- the indexer's handlers
\* The handlers leave the scheduler and the table alone.
ReadOnly == UNCHANGED <<store, now, pc, batch, idx, pending, updated, pre, tickerC, logged, fetcher>>

\* SELECT ... WHERE address = ?
Lookup(table, address) ==
    IF address \in DOMAIN table THEN table[address] ELSE NoRow

\* (mutant) ORDER BY updated_at DESC, address
RECURSIVE LatestFirst(_, _)
LatestFirst(table, S) ==
    IF S = {} THEN <<>>
    ELSE LET first == CHOOSE a \in S : \A b \in S \ {a} :
                          \/ table[a].updated_at > table[b].updated_at
                          \/ /\ table[a].updated_at = table[b].updated_at
                             /\ LexLess(a, b)
         IN  <<first>> \o LatestFirst(table, S \ {first})

EligibleAddressesLatestFirst(table) ==
    LatestFirst(table, {a \in Present(table) : EligibleRow(table[a])})

\* (mutant) the WHERE clause is left out
AllAddresses(table) == OrderByAddress(Present(table))

\* /identities/eligible: the addresses of the eligible rows, ORDER BY address.
EligibleAddresses(table) ==
    OrderByAddress({a \in Present(table) : EligibleRow(table[a])})

handleEligibleIdentities ==
    /\ \/ resp' = [kind |-> "error", status |-> 500]
       \/ LET addresses == EligibleAddresses(ReadView)
          IN  resp' = [kind |-> "eligible", addresses |-> addresses,
                       count |-> Len(addresses)]
    /\ ReadOnly
    /\ UNCHANGED call

\* One row as a handler encodes it.
IdentityJSON(table, a) ==
    [address |-> a, state |-> table[a].state, stake |-> table[a].stake,
     updated_at |-> table[a].updated_at]

\* ORDER BY updated_at DESC: every order of the rows in which updated_at
\* never increases (SQL leaves the order of equal keys open).
LatestOrders(table) ==
    {q \in SeqsUpTo(Present(table), Cardinality(Present(table))) :
        /\ Len(q) = Cardinality(Present(table))
        /\ \A i, j \in 1..Len(q) : i < j =>
              /\ q[i] # q[j]
              /\ table[q[i]].updated_at >= table[q[j]].updated_at}

\* /identities/latest
handleLatestIdentities ==
    /\ \/ resp' = [kind |-> "error", status |-> 500]
       \/ \E q \in LatestOrders(ReadView) :
             resp' = [kind |-> "latest",
                      identities |-> [i \in 1..Len(q) |-> IdentityJSON(ReadView, q[i])]]
    /\ ReadOnly
    /\ UNCHANGED call

\* /identity/<address>
SingleIdentity(table, address) ==
    IF address = <<>> THEN [kind |-> "error", status |-> 400]
    ELSE IF Lookup(table, address) = NoRow THEN [kind |-> "error", status |-> 404]
    ELSE [kind |-> "identity", identity |-> IdentityJSON(table, address)]

\* (mutant) an address that has no row is given an empty one
handleSingleIdentityCreating ==
    /\ \E address \in Addresses \cup {UnknownAddress, <<>>} :
          /\ \/ resp' = [kind |-> "error", status |-> 500]
             \/ resp' = SingleIdentity(ReadView, address)
          /\ store' = IF address \in Addresses /\ store[address] = NoRow
                      THEN [store EXCEPT ![address] =
                               [state |-> "Undefined", stake |-> 0,
                                timestamp |-> now, updated_at |-> now]]
                      ELSE store
    /\ UNCHANGED <<now, pc, batch, idx, pending, updated, pre, tickerC, call, logged,
                   fetcher>>

handleSingleIdentity ==
    /\ \E address \in Addresses \cup {UnknownAddress, <<>>} :
          \/ resp' = [kind |-> "error", status |-> 500]
          \/ resp' = SingleIdentity(ReadView, address)
    /\ ReadOnly
    /\ UNCHANGED call

\* SELECT address, stake ... WHERE state = ? ORDER BY address
StateFilter(table, state) ==
    IF state = "" THEN [kind |-> "error", status |-> 400]
    ELSE LET q == OrderByAddress({a \in Present(table) : table[a].state = state})
         IN  [kind |-> "state",
              identities |-> [k \in 1..Len(q) |->
                                 [address |-> q[k], stake |-> table[q[k]].stake,
                                  state |-> state]]]

\* /state/<state>
handleStateFilter ==
    /\ \E state \in {p[1] : p \in RemoteProfiles} \cup {"Candidate", ""} :
          \/ resp' = [kind |-> "error", status |-> 500]
          \/ resp' = StateFilter(ReadView, state)
    /\ ReadOnly
    /\ UNCHANGED call

\* --------------------------------------------------- the commitment tree
\* H(0x00 || address)
LeafHash(address) == [t |-> "leaf", a |-> address]
\* H(0x01 || left || right)
NodeHash(left, right) == [t |-> "node", l |-> left, r |-> right]
\* The root of an empty snapshot: the leaf hash of the empty string.
SentinelRoot == LeafHash(<<>>)

Leaves(snapshot) == [i \in 1..Len(snapshot) |-> LeafHash(snapshot[i])]

\* Adjacent hashes are paired; the last node of an odd level is paired
\* with itself.
NextLevel(level) ==
    [i \in 1..((Len(level) + 1) \div 2) |->
        NodeHash(level[2 * i - 1],
                 IF 2 * i <= Len(level) THEN level[2 * i] ELSE level[2 * i - 1])]

RECURSIVE Collapse(_)
Collapse(level) ==
    IF Len(level) = 1 THEN level[1] ELSE Collapse(NextLevel(level))

MerkleRoot(snapshot) ==
    IF snapshot = <<>> THEN SentinelRoot ELSE Collapse(Leaves(snapshot))

\* Binary search for address in the sorted snapshot, between lo and hi:
\* its index, or 0.
RECURSIVE BinarySearch(_, _, _, _)
BinarySearch(snapshot, address, lo, hi) ==
    IF lo > hi THEN 0
    ELSE LET mid == (lo + hi) \div 2
         IN  IF snapshot[mid] = address THEN mid
             ELSE IF LexLess(snapshot[mid], address)
                  THEN BinarySearch(snapshot, address, mid + 1, hi)
                  ELSE BinarySearch(snapshot, address, lo, mid - 1)

\* The sibling hash and its side at each level, from the leaf at index i up.
RECURSIVE ProofPath(_, _)
ProofPath(level, i) ==
    IF Len(level) = 1 THEN <<>>
    ELSE LET sibling ==
                 IF i % 2 = 1
                 THEN [hash |-> IF i + 1 <= Len(level) THEN level[i + 1] ELSE level[i],
                       side |-> "right"]
                 ELSE [hash |-> level[i - 1], side |-> "left"]
         IN  <<sibling>> \o ProofPath(NextLevel(level), (i + 1) \div 2)

\* getProof over one snapshot.
ProofIn(snapshot, address) ==
    LET i == BinarySearch(snapshot, address, 1, Len(snapshot))
    IN  IF i = 0 THEN [found |-> FALSE, proof |-> <<>>]
        ELSE [found |-> TRUE, proof |-> ProofPath(Leaves(snapshot), i)]

\* (mutant) the side of a sibling is not looked at
RECURSIVE RecomputeLeftOnly(_, _)
RecomputeLeftOnly(hash, proof) ==
    IF proof = <<>> THEN hash
    ELSE RecomputeLeftOnly(NodeHash(hash, Head(proof).hash), Tail(proof))

\* The path recomputed from the leaf hash of the claimed address.
RECURSIVE Recompute(_, _)
Recompute(hash, proof) ==
    IF proof = <<>> THEN hash
    ELSE Recompute(IF Head(proof).side = "right"
                   THEN NodeHash(hash, Head(proof).hash)
                   ELSE NodeHash(Head(proof).hash, hash),
                   Tail(proof))

verify(proof, root, address) == Recompute(LeafHash(address), proof) = root

\* ------------------------------------------------------ the query surface
\* Root and leaf count of one snapshot.
CommitmentOver(addresses) ==
    [kind |-> "commitment", root |-> MerkleRoot(addresses), leafCount |-> Len(addresses)]

\* Proof and root of one snapshot.
ProofOver(addresses, address) ==
    LET p == ProofIn(addresses, address)
    IN  [kind |-> "proof", address |-> address, found |-> p.found, proof |-> p.proof,
         root |-> MerkleRoot(addresses)]

\* getCommitment on a table: root and leaf count of its eligible list.
Commitment(table) == CommitmentOver(EligibleAddresses(table))

\* getProof on a table.
Proof(table, address) == ProofOver(EligibleAddresses(table), address)

\* A commitment call begins: it reads the eligible list, once.
takeSnapshot ==
    /\ ~call.taken
    /\ call' = [taken |-> TRUE, addresses |-> EligibleAddresses(ReadView)]
    /\ resp' = NoResp
    /\ ReadOnly

\* (mutant) the leaf count comes from a second read of the table
handleMerkleRootSecondRead ==
    /\ call.taken
    /\ resp' = [kind |-> "commitment", root |-> MerkleRoot(call.addresses),
                leafCount |-> Len(EligibleAddresses(ReadView))]
    /\ call' = NoCall
    /\ ReadOnly

\* getCommitment answers from the list the call has read.
handleMerkleRoot ==
    /\ call.taken
    /\ resp' = CommitmentOver(call.addresses)
    /\ call' = NoCall
    /\ ReadOnly

\* getProof answers from the list the call has read.
getProof ==
    /\ call.taken
    /\ \E address \in DOMAIN store \cup {UnknownAddress} :
          resp' = ProofOver(call.addresses, address)
    /\ call' = NoCall
    /\ ReadOnly

\* The states of the remote authority's vocabulary.
Enumeration == {"Undefined", "Candidate", "Newbie", "Verified", "Human", "Suspended",
                "Zombie"}

\* The reason a state that does not pass is refused with: a state of the
\* vocabulary, or one outside it.
StateReason(state) ==
    IF state \in Enumeration THEN "Ineligible state: " \o state
    ELSE "Unrecognized state: " \o state

\* (mutant) the stake is looked at before the state
EligibilityStakeFirst(table, address) ==
    LET row == Lookup(table, address)
    IN  IF row = NoRow
        THEN [eligible |-> FALSE, reason |-> "Address not found in database"]
        ELSE IF row.stake < MinStake
        THEN [eligible |-> FALSE,
              reason |-> "Insufficient stake: " \o ToString(row.stake)
                             \o ".00 iDNA (minimum 10,000)"]
        ELSE IF row.state \notin {"Human", "Verified", "Newbie"}
        THEN [eligible |-> FALSE, reason |-> StateReason(row.state)]
        ELSE [eligible |-> TRUE, reason |-> "Eligible"]

\* (mutant) an address without a record is answered like an ineligible one
EligibilityNoNotFound(table, address) ==
    LET row == Lookup(table, address)
    IN  IF row = NoRow
        THEN [eligible |-> FALSE, reason |-> "Ineligible state: "]
        ELSE IF row.state \notin {"Human", "Verified", "Newbie"}
        THEN [eligible |-> FALSE, reason |-> StateReason(row.state)]
        ELSE IF row.stake < MinStake
        THEN [eligible |-> FALSE,
              reason |-> "Insufficient stake: " \o ToString(row.stake)
                             \o ".00 iDNA (minimum 10,000)"]
        ELSE [eligible |-> TRUE, reason |-> "Eligible"]

\* checkEligibility: not found, then the state, then the stake.
Eligibility(table, address) ==
    LET row == Lookup(table, address)
    IN  IF row = NoRow
        THEN [eligible |-> FALSE, reason |-> "Address not found in database"]
        ELSE IF row.state \notin {"Human", "Verified", "Newbie"}
        THEN [eligible |-> FALSE, reason |-> StateReason(row.state)]
        ELSE IF row.stake < MinStake
        THEN [eligible |-> FALSE,
              reason |-> "Insufficient stake: " \o ToString(row.stake)
                             \o ".00 iDNA (minimum 10,000)"]
        ELSE [eligible |-> TRUE, reason |-> "Eligible"]

checkEligibility ==
    /\ \E address \in DOMAIN store \cup {UnknownAddress} :
          LET e == Eligibility(ReadView, address)
          IN  resp' = [kind |-> "check", address |-> address,
                       eligible |-> e.eligible, reason |-> e.reason]
    /\ ReadOnly
    /\ UNCHANGED call

\* What the log tells of the cycles: when the last one began, and when
\* updateDatabase last reported the table updated (-1: never).
lastAttemptAt == logged.fetching
lastSuccessAt == logged.updated

\* ------------------------------------------------------ the fetcher agent
\* The agent is a program of its own: it leaves the indexer alone.
AgentOnly ==
    UNCHANGED <<store, now, pc, batch, idx, pending, updated, resp, pre, tickerC, call,
                logged>>

\* loadConfig, lines 101-104: batch_size 0, or none, becomes 100; any other
\* value is kept.
DefaultedBatchSize(batchSize) ==
    IF batchSize = 0 THEN DefaultBatchSize ELSE batchSize

\* main, lines 62-75: the config and the address list are loaded.
loadConfig ==
    /\ fetcher.pc = "config"
    /\ fetcher' = [fetcher EXCEPT !.pc = "loaded",
                                  !.BatchSize = DefaultedBatchSize(@)]
    /\ AgentOnly

\* What a node may answer for one address: the address field is the node's.
RemoteIdentityInfo == [Address : Addresses, State : {"Human"}, Stake : {10000}]

\* (mutant) the identity is kept as the node has answered it
ResultAsAnswered(address, info) == info

\* fetchIdentity, lines 234-237: the requested address is written over the
\* one in the answer.
Result(address, info) == [info EXCEPT !.Address = address]

\* FetchIdentities, lines 149-156: the empty snapshot.
FetchIdentities ==
    /\ fetcher.pc = "loaded"
    /\ fetcher' = [fetcher EXCEPT
                      !.pc = "loop",
                      !.i = 0,
                      !.snapshot = [Identities |-> <<>>, Total |-> Len(fetcher.addresses),
                                    Successful |-> 0, Failed |-> <<>>]]
    /\ AgentOnly

\* FetchIdentities, lines 158-165: the loop's test, end, and the slice
\* addresses[i:end], which panics when end is below i; line 185: the return.
nextBatch ==
    /\ fetcher.pc = "loop"
    /\ LET n == Len(fetcher.addresses)
           sum == fetcher.i + fetcher.BatchSize
           end == IF sum > n THEN n ELSE sum
       IN  IF fetcher.i < n
           THEN IF end < fetcher.i
                THEN fetcher' = [fetcher EXCEPT !.pc = "panic", !.end = end]
                ELSE fetcher' = [fetcher EXCEPT !.pc = "batch", !.end = end,
                                               !.j = fetcher.i]
           ELSE fetcher' = [fetcher EXCEPT !.pc = "returned"]
    /\ AgentOnly

\* (mutant) the first address that fails ends the run
fetchIdentityAborting ==
    /\ fetcher.pc = "batch"
    /\ fetcher.j < fetcher.end
    /\ LET address == fetcher.addresses[fetcher.j + 1]
       IN  \/ \E failure \in {"request", "read", "parse", "rpc", "nil"} :
                 fetcher' = [fetcher EXCEPT
                                !.snapshot.Failed = Append(@, address),
                                !.calls = Append(@, [address |-> address, ok |-> FALSE]),
                                !.pc = "returned"]
           \/ \E info \in RemoteIdentityInfo :
                 fetcher' = [fetcher EXCEPT
                                !.snapshot.Identities = Append(@, Result(address, info)),
                                !.snapshot.Successful = @ + 1,
                                !.calls = Append(@, [address |-> address, ok |-> TRUE]),
                                !.j = @ + 1]
    /\ AgentOnly

\* FetchIdentities, lines 167-178, with fetchIdentity, lines 188-238: one
\* address of the batch.  The call fails (request, body, parsing, error
\* field, no result) and the address goes to Failed, or it gives an identity.
fetchIdentity ==
    /\ fetcher.pc = "batch"
    /\ fetcher.j < fetcher.end
    /\ LET address == fetcher.addresses[fetcher.j + 1]
       IN  \/ \E failure \in {"request", "read", "parse", "rpc", "nil"} :
                 fetcher' = [fetcher EXCEPT
                                !.snapshot.Failed = Append(@, address),
                                !.calls = Append(@, [address |-> address, ok |-> FALSE]),
                                !.j = @ + 1]
           \/ \E info \in RemoteIdentityInfo :
                 fetcher' = [fetcher EXCEPT
                                !.snapshot.Identities = Append(@, Result(address, info)),
                                !.snapshot.Successful = @ + 1,
                                !.calls = Append(@, [address |-> address, ok |-> TRUE]),
                                !.j = @ + 1]
    /\ AgentOnly

\* FetchIdentities, lines 180-182 and the loop's step at line 158: the pause
\* when addresses are left, and i += BatchSize.
endBatch ==
    /\ fetcher.pc = "batch"
    /\ fetcher.j = fetcher.end
    /\ fetcher' = [fetcher EXCEPT
                      !.pc = "loop",
                      !.i = @ + fetcher.BatchSize,
                      !.pauses = IF fetcher.end < Len(fetcher.addresses)
                                 THEN Append(@, fetcher.end) ELSE @]
    /\ AgentOnly

\* ---------------------------------------------------------- specifications
\* No request in progress, no transaction open.
Quiet ==
    /\ now = 0
    /\ batch = <<>>
    /\ idx = 1
    /\ pending = EmptyTable
    /\ updated = 0
    /\ resp = NoResp
    /\ tickerC = 0
    /\ call = NoCall
    /\ logged = [fetching |-> -1, updated |-> -1]

\* The scheduler waits for a tick.
Idle ==
    /\ pc = "idle"
    /\ Quiet

\* The indexer: a fresh database, Run about to begin, and the handlers.
Init ==
    /\ store = EmptyTable
    /\ pre = EmptyTable
    /\ pc = "start"
    /\ Quiet
    /\ fetcher = NoFetcher

\* The scheduler goroutine, the ticker and the clock.
NextScheduler ==
    \/ Tick
    \/ tickerFire
    \/ fetchIdentities
    \/ rpcResponse
    \/ clientTimeout
    \/ updateBegin
    \/ updateExec
    \/ updateCommit
    \/ updateReturn
    \/ Crash

Next ==
    \/ Tick
    \/ tickerFire
    \/ fetchIdentities
    \/ rpcResponse
    \/ clientTimeout
    \/ updateBegin
    \/ updateExec
    \/ updateCommit
    \/ updateReturn
    \/ Crash
    \/ handleEligibleIdentities
    \/ handleLatestIdentities
    \/ handleSingleIdentity

Spec == Init /\ [][Next]_vars

\* The indexer without its handlers.
SpecScheduler == Init /\ [][NextScheduler]_vars

\* The scheduler goroutine as it is scheduled: the ticker fires again and
\* again, Run receives a waiting tick, the client gives a request up when
\* its Timeout has passed, and the database calls return.  The node owes no
\* answer, the clock no step, and a kill may come or not.
Scheduling ==
    /\ WF_vars(tickerFire)
    /\ WF_vars(fetchIdentities)
    /\ WF_vars(clientTimeout)
    /\ WF_vars(updateBegin)
    /\ WF_vars(updateExec)
    /\ WF_vars(updateCommit)
    /\ WF_vars(updateReturn)

\* The scheduler goroutine and the ticker; the clock stands still.
NextCycles ==
    \/ tickerFire
    \/ fetchIdentities
    \/ rpcResponse
    \/ clientTimeout
    \/ updateBegin
    \/ updateExec
    \/ updateCommit
    \/ updateReturn
    \/ Crash

SpecLive == Init /\ [][NextCycles]_vars /\ Scheduling

\* The indexer and its eligible listing.
NextListing ==
    \/ NextScheduler
    \/ handleEligibleIdentities

SpecListing == Init /\ [][NextListing]_vars

\* The indexer's ingestion and the commitment calls on the same database.
\* The clock stands still: no answer of these calls depends on a time.
NextQueries ==
    \/ tickerFire
    \/ fetchIdentities
    \/ rpcResponse
    \/ clientTimeout
    \/ updateBegin
    \/ updateExec
    \/ updateCommit
    \/ updateReturn
    \/ Crash
    \/ takeSnapshot
    \/ handleMerkleRoot
    \/ getProof

SpecQueries == Init /\ [][NextQueries]_vars

\* The indexer's ingestion and every query operation on the same database.
\* The clock stands still.
NextSurface ==
    \/ tickerFire
    \/ fetchIdentities
    \/ rpcResponse
    \/ clientTimeout
    \/ updateBegin
    \/ updateExec
    \/ updateCommit
    \/ updateReturn
    \/ Crash
    \/ handleLatestIdentities
    \/ handleEligibleIdentities
    \/ handleSingleIdentity
    \/ handleStateFilter
    \/ checkEligibility
    \/ takeSnapshot
    \/ handleMerkleRoot
    \/ getProof

SpecSurface == Init /\ [][NextSurface]_vars

\* The fetcher agent on any config and any address list.
BatchSizes == -1..MaxAddresses
AddressLists == SeqsUpTo(Addresses, MaxAddresses)

InitFetcher ==
    /\ store = EmptyTable
    /\ pre = EmptyTable
    /\ Idle
    /\ \E batchSize \in BatchSizes, addresses \in AddressLists :
          fetcher = [pc |-> "config", BatchSize |-> batchSize, addresses |-> addresses,
                     i |-> 0, end |-> 0, j |-> 0,
                     snapshot |-> [Identities |-> <<>>, Total |-> 0, Successful |-> 0,
                                   Failed |-> <<>>],
                     calls |-> <<>>, pauses |-> <<>>]

NextFetcher ==
    \/ loadConfig
    \/ FetchIdentities
    \/ nextBatch
    \/ fetchIdentity
    \/ endBatch

SpecFetcher == InitFetcher /\ [][NextFetcher]_vars

\* The eligibility rule on one stored record of any state and stake.
States == {"Undefined", "Candidate", "Newbie", "Verified", "Human", "Suspended",
           "Zombie", "Alien"}
Stakes == {0, 5000, 9999, 10000, 12000, 15000, 25000}

OneRowTables ==
    {EmptyTable} \cup
    {[EmptyTable EXCEPT ![a] = [state |-> s, stake |-> k, timestamp |-> 0, updated_at |-> 0]] :
        a \in Addresses, s \in States, k \in Stakes}

InitEligibility ==
    /\ store \in OneRowTables
    /\ pre = store
    /\ Idle
    /\ fetcher = NoFetcher

NextEligibility ==
    \/ handleEligibleIdentities
    \/ checkEligibility

SpecEligibility == InitEligibility /\ [][NextEligibility]_vars

\* The commitment over any table of up to MaxLeaves addresses.
AddressPool == << <<97>>, <<65>>, <<97, 98>>, <<98>>, <<65, 97>>, <<97, 65>> >>
LeafAddresses == {AddressPool[i] : i \in 1..MaxLeaves}
LeafRows == {[state |-> "Human", stake |-> 10000, timestamp |-> 0, updated_at |-> 0],
             [state |-> "Human", stake |-> 10000, timestamp |-> 1, updated_at |-> 1],
             [state |-> "Candidate", stake |-> 12000, timestamp |-> 0, updated_at |-> 0]}
LeafTables == [LeafAddresses -> {NoRow} \cup LeafRows]

InitCommitment ==
    /\ store \in LeafTables
    /\ pre = store
    /\ Idle
    /\ fetcher = NoFetcher

NextCommitment ==
    \/ handleEligibleIdentities
    \/ takeSnapshot
    \/ handleMerkleRoot
    \/ getProof

SpecCommitment == InitCommitment /\ [][NextCommitment]_vars

\* ------------------------------------------------------ reference notions
\* State and stake of every address, without the timestamps.
Content(table) ==
    [a \in DOMAIN table |->
        IF table[a] = NoRow THEN NoRow
        ELSE [state |-> table[a].state, stake |-> table[a].stake]]

Reported(identities) == {identities[i].Address : i \in 1..Len(identities)}

\* The last identity a result list reports for an address.
LastFor(identities, a) ==
    identities[CHOOSE i \in 1..Len(identities) :
                  /\ identities[i].Address = a
                  /\ \A j \in (i + 1)..Len(identities) : identities[j].Address # a]

\* The content of a table once every record of a result list is applied.
Intended(table, identities) ==
    [a \in DOMAIN table |->
        IF a \in Reported(identities)
        THEN [state |-> LastFor(identities, a).State, stake |-> LastFor(identities, a).Stake]
        ELSE Content(table)[a]]

\* The table already holds what the result list reports.
Reflects(table, identities) == Content(table) = Intended(table, identities)

\* The addresses whose stored record passes the eligibility rule.
EligibleSet(table) ==
    {a \in DOMAIN table :
        /\ table[a] # NoRow
        /\ table[a].state \in {"Human", "Verified", "Newbie"}
        /\ table[a].stake >= 10000}

Listed(q) == {q[i] : i \in 1..Len(q)}

\* Byte-lexicographic order: equal up to a position where a has ended and b
\* has not, or where a's byte is the smaller.
BytewiseBefore(a, b) ==
    \E k \in 1..(Len(b)) :
        /\ \A m \in 1..(k - 1) : m <= Len(a) /\ a[m] = b[m]
        /\ \/ k = Len(a) + 1
           \/ k <= Len(a) /\ a[k] < b[k]

\* ------------------------------------------------------------------ claims
\* C1: updateDatabase is all-or-nothing.  When it has committed, either
\* every record of the batch was applied, or (an Exec having failed) the
\* table is what it was before the batch.
C1_AllOrNothing ==
    pc = "committed" =>
        IF updated = Len(batch)
        THEN Content(store) = Intended(pre, batch)
        ELSE store = pre

\* C5: a read that runs while updateDatabase runs sees the table as it was
\* before the batch or with the whole batch applied, never with only some
\* records of the batch applied.
ListedContent(identities) ==
    [a \in Addresses |->
        IF \E i \in 1..Len(identities) : identities[i].address = a
        THEN LET r == identities[CHOOSE i \in 1..Len(identities) : identities[i].address = a]
             IN  [state |-> r.state, stake |-> r.stake]
        ELSE NoRow]

C5_ReadSeesOldOrNew ==
    (resp.kind = "latest" /\ pc \in {"exec", "committed"}) =>
        ListedContent(resp.identities) \in {Content(pre), Intended(pre, batch)}

\* C6 as stated: a second complete ingestion of a result list the table
\* already reflects changes nothing a query returns.
C6_NothingObservableChanges ==
    (pc = "committed" /\ updated = Len(batch) /\ Reflects(pre, batch)) =>
        /\ \A a \in Addresses : SingleIdentity(store, a) = SingleIdentity(pre, a)
        /\ EligibleAddresses(store) = EligibleAddresses(pre)
        /\ Commitment(store) = Commitment(pre)

\* C6 as amended: a complete ingestion leaves the table reflecting its
\* result list, and a complete ingestion of a result list the table already
\* reflects changes no state, no stake, not the eligible list and not the
\* commitment (only updated_at moves).
C6_ContentUnchanged ==
    (pc = "committed" /\ updated = Len(batch)) =>
        /\ Reflects(store, batch)
        /\ Reflects(pre, batch) =>
              /\ Content(store) = Content(pre)
              /\ EligibleAddresses(store) = EligibleAddresses(pre)
              /\ Commitment(store) = Commitment(pre)

C6_Reingested ==
    /\ pc = "committed"
    /\ updated = Len(batch)
    /\ batch # <<>>
    /\ Reflects(pre, batch)
    /\ Content(store) = Content(pre)
    /\ store # pre

\* C7: the eligible listing holds exactly the addresses whose stored record
\* is eligible, each once, and count is their number.
C7_ListingExact ==
    resp.kind = "eligible" =>
        /\ Listed(resp.addresses) = EligibleSet(store)
        /\ Len(resp.addresses) = Cardinality(EligibleSet(store))
        /\ resp.count = Len(resp.addresses)

C7_ListedAndLeftOut ==
    /\ resp.kind = "eligible"
    /\ resp.count = 1
    /\ Cardinality(Present(store)) = 2

\* C2: a record is listed as eligible exactly when its state is Human,
\* Verified or Newbie and its stake is at least 10000; a stake of exactly
\* 10000 is eligible and the largest stake below it is not.
C2_EligibleIffStateAndStake ==
    resp.kind = "eligible" =>
        \A a \in Present(store) :
            /\ (a \in Listed(resp.addresses)) <=>
                  (store[a].state \in {"Human", "Verified", "Newbie"} /\ store[a].stake >= 10000)
            /\ (store[a].state \in {"Human", "Verified", "Newbie"} /\ store[a].stake = 10000)
                  => a \in Listed(resp.addresses)
            /\ store[a].stake = 9999 => a \notin Listed(resp.addresses)

C2_AtThreshold ==
    /\ resp.kind = "eligible"
    /\ \E a \in Present(store) :
          /\ store[a].state = "Newbie"
          /\ store[a].stake = 10000
          /\ resp.addresses = <<a>>

\* C3: root and proofs depend on the set of eligible addresses only: any
\* table with the same eligible set, whatever else it holds and whenever
\* its rows were written, gives the same commitment and the same proof.
C3_CommitmentOfSetOnly ==
    /\ resp.kind = "commitment" =>
          \A t \in LeafTables :
              EligibleSet(t) = EligibleSet(store) => Commitment(t) = resp
    /\ resp.kind = "proof" =>
          \A t \in LeafTables :
              EligibleSet(t) = EligibleSet(store) => Proof(t, resp.address) = resp

C3_WrittenOutOfOrder ==
    /\ resp.kind = "commitment"
    /\ resp.leafCount = 3
    /\ \E a, b \in EligibleSet(store) :
          BytewiseBefore(a, b) /\ store[a].updated_at > store[b].updated_at

\* C4: getProof gives every address of the snapshot a proof that verifies
\* against the snapshot's root, and reports absence, with no proof, for
\* every other address.
C4_ProofSound ==
    resp.kind = "proof" =>
        IF resp.address \in EligibleSet(store)
        THEN /\ resp.found
             /\ verify(resp.proof, resp.root, resp.address)
             /\ resp.root = Commitment(store).root
        ELSE /\ ~resp.found
             /\ resp.proof = <<>>

C4_ProofOverOddLevel ==
    /\ resp.kind = "proof"
    /\ resp.found
    /\ Cardinality(EligibleSet(store)) = 3
    /\ Len(resp.proof) = 2
    /\ resp.proof[1].hash = LeafHash(resp.address)

\* C8: the eligible listing is in strictly ascending byte-lexicographic
\* order, so no address appears twice.
C8_StrictlyAscending ==
    resp.kind = "eligible" =>
        \A i, j \in 1..Len(resp.addresses) :
            i < j => BytewiseBefore(resp.addresses[i], resp.addresses[j])

C8_ListedAgainstWriteOrder ==
    /\ resp.kind = "eligible"
    /\ resp.count = MaxLeaves
    /\ \E i, j \in 1..Len(resp.addresses) :
          /\ i < j
          /\ store[resp.addresses[i]].updated_at > store[resp.addresses[j]].updated_at

C10_NotFound ==
    /\ [](resp.kind = "check" =>
            /\ resp.eligible \in BOOLEAN
            /\ (resp.address \notin Present(store)) <=>
                   (resp.reason = "Address not found in database")
            /\ resp.address \notin Present(store) => ~resp.eligible)
    /\ [][resp'.kind = "check" => store' = store]_vars

C10_UnknownAddressChecked ==
    /\ resp.kind = "check"
    /\ resp.address = UnknownAddress
    /\ Present(store) # {}
    /\ resp.reason = "Address not found in database"
\* C11: the evaluator answers for every state.  A record whose state is
\* outside the vocabulary is never listed as eligible, and a check of it
\* answers ineligible with a reason that no record with a state of the
\* vocabulary, no missing record and no eligible record is answered with.
C11_Total ==
    /\ resp.kind = "eligible" =>
          \A a \in Present(store) :
              store[a].state \notin Enumeration => a \notin Listed(resp.addresses)
    /\ resp.kind = "check" =>
          /\ resp.eligible \in BOOLEAN
          /\ resp.reason # ""
          /\ (resp.address \in Present(store)
                 /\ store[resp.address].state \notin Enumeration) =>
                /\ ~resp.eligible
                /\ resp.reason \notin {"Ineligible state: " \o s : s \in Enumeration}
                /\ resp.reason \notin {"Address not found in database", "Eligible"}
                /\ resp.reason \notin
                      {"Insufficient stake: " \o ToString(k) \o ".00 iDNA (minimum 10,000)" :
                          k \in Stakes}

C11_UnrecognizedStateChecked ==
    /\ resp.kind = "check"
    /\ resp.address \in Present(store)
    /\ store[resp.address].state = "Alien"
    /\ store[resp.address].stake = 15000
    /\ ~resp.eligible
\* A proof with one direction bit flipped, and with one sibling hash changed.
FlipSide(proof, i) ==
    [proof EXCEPT ![i].side = IF proof[i].side = "right" THEN "left" ELSE "right"]

SwapHash(proof, i, h) == [proof EXCEPT ![i].hash = h]

\* Hashes to put in a sibling's place: leaves, the empty-set root, the root
\* and the siblings of the proof, and the nodes over them.
HashPool(r) ==
    LET base == {LeafHash(a) : a \in LeafAddresses \cup {UnknownAddress}}
                    \cup {SentinelRoot, r.root}
                    \cup {r.proof[j].hash : j \in 1..Len(r.proof)}
    IN  base \cup {NodeHash(x, x) : x \in base}

RECURSIVE Pow2(_)
Pow2(k) == IF k = 0 THEN 1 ELSE 2 * Pow2(k - 1)

CeilDiv(a, b) == (a + b - 1) \div b

\* At level j (the leaves are level 1) of a tree over n leaves, the node
\* above leaf i is the last node of an odd-sized level.
LastOfOddLevel(n, i, j) ==
    LET size == CeilDiv(n, Pow2(j - 1))
        node == CeilDiv(i, Pow2(j - 1))
    IN  node = size /\ size % 2 = 1

\* The place of an address in the ascending list of a set.
IndexIn(S, a) == Cardinality({b \in S : BytewiseBefore(b, a)}) + 1

\* C12 as stated: a valid proof with any single sibling hash changed or any
\* single direction bit flipped does not verify against the root.
C12_AnyTamperFails ==
    (resp.kind = "proof" /\ resp.found) =>
        \A i \in 1..Len(resp.proof) :
            /\ ~verify(FlipSide(resp.proof, i), resp.root, resp.address)
            /\ \A h \in HashPool(resp) \ {resp.proof[i].hash} :
                   ~verify(SwapHash(resp.proof, i, h), resp.root, resp.address)

\* C12 as amended: a valid proof with any single sibling hash changed does
\* not verify, and with a single direction bit flipped it does not verify
\* unless that bit belongs to a level where the node on the path is the
\* last of an odd-sized level, paired with itself: then it still verifies.
C12_TamperFails ==
    (resp.kind = "proof" /\ resp.found) =>
        /\ verify(resp.proof, resp.root, resp.address)
        /\ \A i \in 1..Len(resp.proof) :
              /\ verify(FlipSide(resp.proof, i), resp.root, resp.address) <=>
                     LastOfOddLevel(Cardinality(EligibleSet(store)),
                                    IndexIn(EligibleSet(store), resp.address), i)
              /\ \A h \in HashPool(resp) \ {resp.proof[i].hash} :
                     ~verify(SwapHash(resp.proof, i, h), resp.root, resp.address)

C12_FlippedAtSelfPairing ==
    /\ resp.kind = "proof"
    /\ resp.found
    /\ Cardinality(EligibleSet(store)) = 3
    /\ IndexIn(EligibleSet(store), resp.address) = 3
    /\ verify(FlipSide(resp.proof, 1), resp.root, resp.address)
    /\ ~verify(FlipSide(resp.proof, 2), resp.root, resp.address)
\* C13: when no stored record is eligible (the table is empty, or every
\* record is ineligible) the commitment call answers with the sentinel
\* root, the leaf hash of the empty string, which is a hash value and not
\* an empty or missing one, and with a leaf count of 0.
C13_SentinelRoot ==
    (resp.kind = "commitment" /\ EligibleSet(store) = {}) =>
        /\ resp.root = LeafHash(<<>>)
        /\ resp.root.t = "leaf"
        /\ resp.leafCount = 0

C13_EveryRecordIneligible ==
    /\ resp.kind = "commitment"
    /\ Cardinality(Present(store)) = MaxLeaves
    /\ EligibleSet(store) = {}
    /\ resp.root = SentinelRoot
\* C14: whatever the scheduler commits while a commitment call runs, the
\* call's answer comes from one read: some one set of addresses gives its
\* root, its leaf count and its proof, and a proof it gives verifies
\* against the root it gives.
C14_OneRead ==
    /\ resp.kind = "commitment" =>
          \E S \in SUBSET Addresses :
              /\ resp.root = MerkleRoot(OrderByAddress(S))
              /\ resp.leafCount = Cardinality(S)
    /\ resp.kind = "proof" =>
          /\ \E S \in SUBSET Addresses :
                /\ resp.root = MerkleRoot(OrderByAddress(S))
                /\ resp.found <=> resp.address \in S
                /\ resp.proof = ProofIn(OrderByAddress(S), resp.address).proof
          /\ resp.found => verify(resp.proof, resp.root, resp.address)

C14_CommittedWhileCalling ==
    /\ resp.kind = "commitment"
    /\ pc = "committed"
    /\ resp = Commitment(pre)
    /\ resp.leafCount # Commitment(store).leafCount
\* C15: the table holds one row per address, and an upsert of an address
\* replaces its row wholesale: the row the statement leaves has the state
\* and the stake of the new input and the time of the statement in every
\* time column, whatever the old row held, no other row is touched, and
\* Commit puts that row in the place of the old one.
C15_ReplacedWholesale ==
    [][/\ (pc = "exec" /\ updated' = updated + 1) =>
             LET identity == batch[idx]
             IN  /\ pending'[identity.Address] =
                        [state |-> identity.State, stake |-> identity.Stake,
                         timestamp |-> now, updated_at |-> now]
                 /\ \A b \in Addresses \ {identity.Address} : pending'[b] = pending[b]
       /\ (pc = "exec" /\ pc' = "committed") =>
             /\ DOMAIN store' = Addresses
             /\ \A a \in Addresses :
                    store'[a] = IF pending[a] # NoRow THEN pending[a] ELSE store[a]
      ]_vars

C15_OldRowReplaced ==
    /\ pc = "committed"
    /\ \E a \in Addresses :
          /\ pre[a] # NoRow
          /\ store[a] # NoRow
          /\ store[a].state # pre[a].state
          /\ store[a].stake # pre[a].stake
          /\ store[a].timestamp # pre[a].timestamp
          /\ store[a].updated_at # pre[a].updated_at
\* C16: no step deletes a record, and once updateDatabase has committed an
\* ingestion, every address that had a record and that the ingestion
\* reports with an ineligible state or stake has a record with the reported
\* state and stake and is not in the eligible list.
C16_KeptAndExcluded ==
    /\ pc \in {"exec", "committed"} =>
          \A a \in Addresses : pre[a] # NoRow => store[a] # NoRow
    /\ pc = "committed" =>
          \A a \in Reported(batch) :
              LET last == LastFor(batch, a)
              IN  (/\ pre[a] # NoRow
                   /\ ~(last.State \in {"Human", "Verified", "Newbie"}
                          /\ last.Stake >= 10000)) =>
                     /\ store[a] # NoRow
                     /\ store[a].state = last.State
                     /\ store[a].stake = last.Stake
                     /\ a \notin Listed(EligibleAddresses(store))

\* The part of C16 that no failed statement touches: a step never takes
\* a record away.
C16_NeverDeleted ==
    [][\A a \in Addresses : store[a] # NoRow => store'[a] # NoRow]_vars
\* An address with its letters A-Z put in lower case.
LowerCase(a) == [i \in 1..Len(a) |-> IF a[i] \in 65..90 THEN a[i] + 32 ELSE a[i]]

\* C17: addresses are case-normalized keys: the table never holds two
\* records whose addresses differ only in letter case.
C17_CaseNormalizedKeys ==
    \A a, b \in Present(store) : LowerCase(a) = LowerCase(b) => a = b
\* C18: the time of the last successful ingestion is never later than the
\* time of the last attempt.
C18_Watermark == lastSuccessAt <= lastAttemptAt

\* The part of C18 that holds of the log: every cycle that begins, whatever
\* becomes of it, stamps the time of the attempt.
C18_AttemptLogged ==
    [][(pc # "fetching" /\ pc' = "fetching") => lastAttemptAt' = now]_vars
\* C19: a tick that fires while a cycle runs is skipped, not queued: when
\* a cycle ends and the scheduler is idle again, no tick is waiting for it,
\* so the next cycle begins only at a tick that fires while it is idle.
C19_TicksSkipped ==
    [][(pc # "idle" /\ pc' = "idle") => tickerC' = 0]_vars

\* The part of C19 that holds: one goroutine runs the cycles, so a cycle
\* begins only when none is running.
C19_NoOverlap ==
    [][pc' = "fetching" => pc \in {"start", "idle", "fetching"}]_vars
\* The scheduler's state: Idle between cycles, Fetching inside
\* fetchIdentities' request, Reconciling inside updateDatabase.
Phase(p) ==
    IF p \in {"start", "idle"} THEN "Idle"
    ELSE IF p = "fetching" THEN "Fetching"
    ELSE "Reconciling"

\* C20: a cycle goes Idle, Fetching, Reconciling, Idle, or Idle, Fetching,
\* Idle when the fetch fails.  updateDatabase is entered from Fetching only,
\* with a result of the fetch, so once a cycle at most; a fetch that fails
\* leaves the table, the batch and the transaction as they were; and a
\* fetch begins from Idle only.
C20_CycleOrder ==
    [][/\ Phase(pc') # Phase(pc) =>
             <<Phase(pc), Phase(pc')>> \in
                 {<<"Idle", "Fetching">>, <<"Fetching", "Reconciling">>,
                  <<"Fetching", "Idle">>, <<"Reconciling", "Idle">>}
       /\ (pc' = "update" /\ pc # "update") =>
             /\ pc = "fetching"
             /\ batch' \in RPCResults
             /\ store' = store
       /\ (pc = "fetching" /\ pc' = "idle") =>
             /\ store' = store
             /\ batch' = <<>>
             /\ pending' = EmptyTable
             /\ updated' = 0
      ]_vars

C20_FailedAfterDone ==
    /\ pc = "idle"
    /\ lastSuccessAt = 0
    /\ lastAttemptAt = 1
    /\ Present(store) # {}

\* C21: a cycle whose fetch fails (no answer, an answer that cannot be read
\* or parsed, an answer with its error field set) leaves the table as it
\* was before the cycle, so every query answers what it answered before;
\* the log's last success is not advanced either.
C21_FailedFetchFrame ==
    [][(pc = "fetching" /\ pc' = "idle") =>
          /\ store' = store
          /\ store' = pre'
          /\ EligibleAddresses(store') = EligibleAddresses(pre)
          /\ LatestOrders(store') = LatestOrders(pre)
          /\ \A a \in Addresses \cup {UnknownAddress} :
                SingleIdentity(store', a) = SingleIdentity(pre, a)
          /\ lastSuccessAt' = lastSuccessAt
      ]_vars

\* a fetch has failed over a table that earlier cycles had filled
C21_FailedOverFilledTable ==
    /\ pc = "idle"
    /\ lastAttemptAt = 1
    /\ lastSuccessAt = 0
    /\ Cardinality(Present(store)) = 2
    /\ \A a \in Addresses : store[a].updated_at = 0

\* C22: no failure stops the scheduler.  Wherever a cycle has ended, with or
\* without a failure of its fetch, of Begin, Prepare or Commit, and wherever
\* updateDatabase stands, a new cycle begins later.
C22_NextCycleFollows == (pc # "fetching") ~> (pc = "fetching")

\* every cycle so far has failed, the scheduler waits and a tick has arrived
C22_IdleAfterFailures ==
    /\ pc = "idle"
    /\ lastAttemptAt = 0
    /\ lastSuccessAt = -1
    /\ tickerC = 1
    /\ ENABLED fetchIdentities

\* C23: a cycle that has begun its fetch comes back to Idle, whether the
\* node answers or not: the client's Timeout ends the request.
C23_FetchEnds == (pc = "fetching") ~> (Phase(pc) = "Idle")

\* a request is out and nothing has been ingested yet
C23_RequestOut ==
    /\ pc = "fetching"
    /\ ENABLED clientTimeout
    /\ lastSuccessAt = -1
    /\ store = EmptyTable

\* C24: when Run begins no tick has been sent and the first fetch can begin
\* at once; a fetch begins either there, with no tick, or from Idle by
\* taking the tick that waits in ticker.C.
C24_FirstAtOnceThenTicks ==
    [][/\ pc = "start" => (tickerC = 0 /\ ENABLED fetchIdentities)
       /\ (pc' = "fetching" /\ pc # "fetching") =>
             /\ \/ pc = "start" /\ tickerC = 0
                \/ pc = "idle" /\ tickerC = 1
             /\ tickerC' = 0
      ]_vars

\* a later cycle runs: a cycle has been completed and a tick has been taken
C24_LaterCycleRuns ==
    /\ pc = "fetching"
    /\ lastSuccessAt = 0
    /\ lastAttemptAt = 1
    /\ tickerC = 0

\* The addresses of the calls of fetchIdentity that ended the given way, in
\* the order of the calls.
CallsWhere(calls, ok) ==
    LET sel == SelectSeq(calls, LAMBDA c : c.ok = ok)
    IN  [k \in 1..Len(sel) |-> sel[k].address]

\* C25: a fetch that fails puts its address, and no other, in Failed and
\* ends nothing: the calls of fetchIdentity follow the input list position
\* by position, and a run in which a fetch has failed ends only when every
\* address of the list has had its one call.
C25_FailureAbortsNothing ==
    /\ Len(fetcher.calls) <= Len(fetcher.addresses)
    /\ \A k \in 1..Len(fetcher.calls) : fetcher.calls[k].address = fetcher.addresses[k]
    /\ fetcher.snapshot.Failed = CallsWhere(fetcher.calls, FALSE)
    /\ (/\ fetcher.pc \in {"returned", "panic"}
        /\ \E k \in 1..Len(fetcher.calls) : ~fetcher.calls[k].ok) =>
          Len(fetcher.calls) = Len(fetcher.addresses)

\* the first address of the first batch has failed; the rest of its batch
\* and the next batch were fetched
C25_FailedFirstOfThree ==
    /\ fetcher.pc = "returned"
    /\ fetcher.BatchSize = 2
    /\ Len(fetcher.addresses) = 3
    /\ ~fetcher.calls[1].ok
    /\ fetcher.calls[2].ok
    /\ fetcher.calls[3].ok

\* C28: the snapshot FetchIdentities returns for n addresses has Total = n,
\* Successful = len(Identities) and Successful + len(Failed) = n; every
\* position of the input is in Identities when its fetch succeeded and in
\* Failed when it failed, both in input order, and every identity carries
\* the address that was asked for.
C28_SnapshotAccounts ==
    fetcher.pc = "returned" =>
        LET s == fetcher.snapshot
            n == Len(fetcher.addresses)
        IN  /\ s.Total = n
            /\ s.Successful = Len(s.Identities)
            /\ s.Successful + Len(s.Failed) = n
            /\ Len(fetcher.calls) = n
            /\ \A k \in 1..n : fetcher.calls[k].address = fetcher.addresses[k]
            /\ [k \in 1..Len(s.Identities) |-> s.Identities[k].Address] =
                  CallsWhere(fetcher.calls, TRUE)
            /\ s.Failed = CallsWhere(fetcher.calls, FALSE)

\* a list that names an address twice, one fetch of three has failed
C28_MixedSnapshot ==
    /\ fetcher.pc = "returned"
    /\ fetcher.addresses = << <<65>>, <<97>>, <<65>> >>
    /\ fetcher.snapshot.Failed = << <<97>> >>
    /\ fetcher.snapshot.Successful = 2

\* C29: for every address list and every BatchSize loadConfig can leave in
\* the config, FetchIdentities returns, after one call of fetchIdentity per
\* address, having paused after every batch but the last.
C29_ReturnsAfterEveryAddress ==
    /\ fetcher.pc # "panic"
    /\ fetcher.pc = "returned" =>
          /\ Len(fetcher.calls) = Len(fetcher.addresses)
          /\ \A k \in 1..Len(fetcher.pauses) :
                /\ fetcher.pauses[k] = k * fetcher.BatchSize
                /\ fetcher.pauses[k] < Len(fetcher.addresses)
          /\ \A k \in 1..Len(fetcher.addresses) :
                (k * fetcher.BatchSize \in 1..(Len(fetcher.addresses) - 1)) =>
                   k <= Len(fetcher.pauses)

\* what holds of C29: the same for every BatchSize above 0
C29_WhenPositive ==
    fetcher.BatchSize > 0 => C29_ReturnsAfterEveryAddress

\* updated_at of an address in a table; -1 when the address has no record
lastSeenAt(table, a) ==
    IF table[a] = NoRow THEN -1 ELSE table[a].updated_at

\* C26: the updated_at of an address never decreases, and it changes only
\* in the step that commits an ingestion whose batch names the address; it
\* is then a time read during that ingestion, between the cycle's begin and
\* the commit.  A cycle that fails or is rolled back, and every query, leave
\* it as it was.
C26_LastSeen ==
    [][store' # store =>
          /\ pc = "exec"
          /\ pc' = "committed"
          /\ \A a \in Addresses :
                /\ lastSeenAt(store', a) >= lastSeenAt(store, a)
                /\ lastSeenAt(store', a) # lastSeenAt(store, a) =>
                      /\ a \in Reported(batch)
                      /\ lastSeenAt(store', a) \in lastAttemptAt..now
                /\ pending[a] # NoRow =>
                      lastSeenAt(store', a) \in lastAttemptAt..now
      ]_vars

\* a later ingestion has reported one address of two: its updated_at has
\* moved to the time of that ingestion, the other's has stayed
C26_SeenAgain ==
    /\ pc = "committed"
    /\ \E a, b \in Addresses :
          /\ a \in Reported(batch)
          /\ b \notin Reported(batch)
          /\ lastSeenAt(pre, a) = 0
          /\ lastSeenAt(store, a) = 1
          /\ lastSeenAt(pre, b) = 0
          /\ lastSeenAt(store, b) = 0

\* C27: the table changes in one step only, the commit of updateDatabase's
\* transaction.  A step of a query operation (latest, eligible listing,
\* single identity, state filter, eligibility check, commitment, proof)
\* leaves the table, the open transaction and the scheduler as they were.
C27_OnlyUpsertWrites ==
    [][/\ store' # store =>
             /\ pc = "exec"
             /\ pc' = "committed"
             /\ store' = CommitRows(store, pending)
       /\ (resp' # NoResp \/ call' # call) =>
             UNCHANGED <<store, pending, pc, batch, idx, updated, logged>>
      ]_vars

\* the state filter has answered both records while a transaction that
\* has written a row was open
C27_FilteredDuringIngestion ==
    /\ resp.kind = "state"
    /\ Len(resp.identities) = 2
    /\ pc = "exec"
    /\ pending # EmptyTable

\* C30: an ingestion changes the records of the addresses of its batch
\* only.  The record of an address the node no longer reports is kept as it
\* was, and when it is eligible the address is still on the eligible
\* listing served after the commit.
C30_OthersKept ==
    pc = "committed" =>
        \A a \in Addresses \ Reported(batch) :
           /\ store[a] = pre[a]
           /\ (resp.kind = "eligible" /\ pre[a] # NoRow /\ EligibleRow(pre[a])) =>
                 a \in Listed(resp.addresses)

\* an ingestion that does not name an eligible address has changed the
\* table, and the listing served after it names that address
C30_UnreportedStillListed ==
    /\ pc = "committed"
    /\ store # pre
    /\ resp.kind = "eligible"
    /\ \E a \in Addresses \ Reported(batch) :
          /\ pre[a] # NoRow
          /\ EligibleRow(pre[a])
          /\ a \in Listed(resp.addresses)
====
